---- MODULE Spec2Model ----
(***************************************************************************)
(* A model of libusb-rs' asynchronous transfer API (src/src/async.rs) and  *)
(* its error mapping (src/src/error.rs).                                   *)
(*                                                                         *)
(* Spec      : one AsyncGroup, its owner thread (submit / wait_any /       *)
(*             cancel_all / drop) and the engine thread that completes     *)
(*             transfers and runs async_group_callback.                    *)
(* SpecTransfer : one Transfer outside any group: its constructors         *)
(*             (bulk / interrupt / control), the engine's writes to the    *)
(*             descriptor, set_buffer and its accessors.                   *)
(***************************************************************************)
EXTENDS Integers, Sequences, FiniteSets, TLC

\* ------------------------------------------------------------- bounds
\* Number of transfer descriptors the caller allocates.
NumTransfers == 2
\* Number of successful submissions (a retrieved transfer may be resubmitted).
MaxSubmits == 3

Transfers == 1..NumTransfers
\* The null transfer pointer (no descriptor held in a local).
NoT == 0

\* ------------------------------------------------- libusb code values
LIBUSB_TRANSFER_COMPLETED == 0
LIBUSB_TRANSFER_ERROR == 1
LIBUSB_TRANSFER_TIMED_OUT == 2
LIBUSB_TRANSFER_CANCELLED == 3
LIBUSB_TRANSFER_STALL == 4
LIBUSB_TRANSFER_NO_DEVICE == 5
LIBUSB_TRANSFER_OVERFLOW == 6
\* (*t).status = -1 in Transfer::new
STATUS_UNSET == -1

LIBUSB_SUCCESS == 0
LIBUSB_ERROR_IO == -1
LIBUSB_ERROR_INVALID_PARAM == -2
LIBUSB_ERROR_ACCESS == -3
LIBUSB_ERROR_NO_DEVICE == -4
LIBUSB_ERROR_NOT_FOUND == -5
LIBUSB_ERROR_BUSY == -6
LIBUSB_ERROR_TIMEOUT == -7
LIBUSB_ERROR_OVERFLOW == -8
LIBUSB_ERROR_PIPE == -9
LIBUSB_ERROR_INTERRUPTED == -10
LIBUSB_ERROR_NO_MEM == -11
LIBUSB_ERROR_NOT_SUPPORTED == -12
LIBUSB_ERROR_OTHER == -99

\* error::from_libusb
from_libusb(err) ==
    CASE err = LIBUSB_SUCCESS -> "Success"
      [] err = LIBUSB_ERROR_IO -> "Io"
      [] err = LIBUSB_ERROR_INVALID_PARAM -> "InvalidParam"
      [] err = LIBUSB_ERROR_ACCESS -> "Access"
      [] err = LIBUSB_ERROR_NO_DEVICE -> "NoDevice"
      [] err = LIBUSB_ERROR_NOT_FOUND -> "NotFound"
      [] err = LIBUSB_ERROR_BUSY -> "Busy"
      [] err = LIBUSB_ERROR_TIMEOUT -> "Timeout"
      [] err = LIBUSB_ERROR_OVERFLOW -> "Overflow"
      [] err = LIBUSB_ERROR_PIPE -> "Pipe"
      [] err = LIBUSB_ERROR_INTERRUPTED -> "Interrupted"
      [] err = LIBUSB_ERROR_NO_MEM -> "NoMem"
      [] err = LIBUSB_ERROR_NOT_SUPPORTED -> "NotSupported"
      [] OTHER -> "Other"

\* The variants of error::Error, as the strings from_libusb yields.
ErrorNames ==
    {"Success", "Io", "InvalidParam", "Access", "NoDevice", "NotFound", "Busy",
     "Timeout", "Overflow", "Pipe", "Interrupted", "NoMem", "NotSupported", "Other"}

\* try_unsafe!: 0 falls through, anything else returns Err(from_libusb(err)).
try_unsafe_falls_through(rc) == rc = 0

\* Return codes the engine may give to each call made by the group.
SubmitCodes == {LIBUSB_SUCCESS, LIBUSB_ERROR_BUSY}
\* libusb_cancel_transfer, by the engine's view e of the descriptor: a transfer
\* in flight is cancelled or the request fails; one that is no longer in flight
\* (its completion already fired) may be answered with NOT_FOUND.
CancelCodes(e) ==
    IF e \in {"inflight", "cancelling"}
    THEN {LIBUSB_SUCCESS, LIBUSB_ERROR_NO_DEVICE}
    ELSE {LIBUSB_SUCCESS, LIBUSB_ERROR_NOT_FOUND}
EventCodes == {LIBUSB_SUCCESS, LIBUSB_ERROR_INTERRUPTED}
\* Statuses the engine may write into a descriptor that completes on its own.
EngineStatuses == {LIBUSB_TRANSFER_COMPLETED}
TerminalStatuses ==
    {LIBUSB_TRANSFER_COMPLETED, LIBUSB_TRANSFER_ERROR, LIBUSB_TRANSFER_TIMED_OUT,
     LIBUSB_TRANSFER_CANCELLED, LIBUSB_TRANSFER_STALL, LIBUSB_TRANSFER_NO_DEVICE,
     LIBUSB_TRANSFER_OVERFLOW}

\* -------------------------------------------------------------- state
VARIABLES
    pc,         \* position of the thread that owns the AsyncGroup
    op,         \* the API call that thread is in (or was last in)
    ret,        \* the Result the last API call produced ("none" while running)
    cur,        \* the local `t` of submit / `transfer` of wait_any
    todo,       \* what is left of cancel_all's iteration over `pending`
    pending,    \* AsyncGroup.pending
    completed,  \* CallbackData.completed (the VecDeque under the Mutex)
    flag,       \* CallbackData.flag
    lock,       \* who holds the Mutex: "free", "main" or "cb"
    owner,      \* per descriptor: "caller" (a Transfer value), "group" (forgotten), "freed"
    status,     \* per descriptor: (*transfer).status
    user_data,  \* per descriptor: (*transfer).user_data
    eng,        \* per descriptor: the engine's view of it
    cbT,        \* the descriptor async_group_callback is running for, or NoT
    cbPc,       \* position inside async_group_callback
    subCount,   \* history: per descriptor, the submissions the engine accepted
    enqLog,     \* history: descriptors in the order the callback enqueued them
    retLog,     \* history: descriptors in the order wait_any returned them
    cancelSnap, \* history: `pending` when cancel_all was entered
    cancelRaced, \* history: those of cancelSnap that had already completed then
    cancelReq,  \* history: per descriptor, the cancel requests of this cancel_all
    woke,       \* history: in this wait_any the event call returned on an empty queue
    freeCount,  \* history: per descriptor, the calls of libusb_free_transfer
    early,      \* history: descriptors enqueued before submit recorded them
    tr,         \* SpecTransfer: the Transfer (its descriptor fields and buffer)
    targs,      \* SpecTransfer: the arguments the Transfer was built from
    tout        \* SpecTransfer: what the last accessor call returned

vars == <<pc, op, ret, cur, todo, pending, completed, flag, lock, owner, status,
          user_data, eng, cbT, cbPc, subCount, enqLog, retLog, cancelSnap, cancelRaced,
          cancelReq, woke, freeCount, early, tr, targs, tout>>

mainVars == <<pc, op, ret, cur, todo, pending>>
xferVars == <<tr, targs, tout>>
groupVars == <<pc, op, ret, cur, todo, pending, completed, flag, lock, owner, status,
               user_data, eng, cbT, cbPc, subCount, enqLog, retLog, cancelSnap,
               cancelRaced, cancelReq, woke, freeCount, early>>
histVars == <<subCount, enqLog, retLog, cancelSnap, cancelRaced, cancelReq, woke,
              freeCount, early>>

RECURSIVE SumOver(_, _)
SumOver(f, S) == IF S = {} THEN 0
                 ELSE LET x == CHOOSE y \in S : TRUE IN f[x] + SumOver(f, S \ {x})
\* Submissions the engine has accepted so far.
Submitted == SumOver(subCount, Transfers)

\* The CompletionState (Box<CallbackData>) has been freed: drop has finished.
groupFreed == pc = "dropped"
\* The engine holds the descriptor and will run its callback.
EngineHolds(t) == eng[t] \in {"inflight", "cancelling", "callback"}

\* No Transfer built yet.
NoTransfer == [built |-> FALSE]
NoArgs == [ctor |-> "none"]
NoOut == [call |-> "none"]

\* AsyncGroup::new, with NumTransfers unsubmitted Transfers built by Transfer::new.
GroupInit ==
    /\ pc = "idle" /\ op = "none" /\ ret = "none" /\ cur = NoT /\ todo = {}
    /\ pending = {} /\ completed = <<>> /\ flag = 0 /\ lock = "free"
    /\ owner = [t \in Transfers |-> "caller"]
    /\ status = [t \in Transfers |-> STATUS_UNSET]
    /\ user_data = [t \in Transfers |-> "null"]
    /\ eng = [t \in Transfers |-> "idle"]
    /\ cbT = NoT /\ cbPc = "none"
    /\ subCount = [t \in Transfers |-> 0] /\ enqLog = <<>> /\ retLog = <<>>
    /\ cancelSnap = {} /\ cancelRaced = {}
    /\ cancelReq = [t \in Transfers |-> 0] /\ woke = FALSE
    /\ freeCount = [t \in Transfers |-> 0] /\ early = {}

Init ==
    /\ GroupInit
    /\ tr = NoTransfer /\ targs = NoArgs /\ tout = NoOut

\* ------------------------------------------------------------- submit
\* The caller passes one of its Transfer values to submit.
CallSubmit(t) ==
    /\ UNCHANGED xferVars
    /\ pc = "idle" /\ owner[t] = "caller" /\ Submitted < MaxSubmits
    /\ pc' = "submit" /\ op' = "submit" /\ ret' = "none" /\ cur' = t
    /\ cancelSnap' = {} /\ cancelRaced' = {}
    /\ cancelReq' = [x \in Transfers |-> 0]
    /\ UNCHANGED <<todo, pending, completed, flag, lock, owner, status, user_data,
                   eng, cbT, cbPc, subCount, enqLog, retLog, woke, freeCount, early>>

\* pending.insert(t.transfer)
PendingInsert(p, t) == p \cup {t}

\* Mutant of PendingOnReject: the descriptor is recorded before the engine's
\* answer is looked at.
PendingOnRejectInserts(p, t) == p \cup {t}

\* What submit leaves in `pending` when the engine has rejected the descriptor.
PendingOnReject(p, t) == p

\* Lines 211-213: install user_data and callback, libusb_submit_transfer, try_unsafe!.
\* On a non-zero code the Transfer `t` goes out of scope: libusb_free_transfer.
SubmitEngine ==
    /\ UNCHANGED xferVars
    /\ pc = "submit"
    /\ user_data' = [user_data EXCEPT ![cur] = "callback_data"]
    /\ \E rc \in SubmitCodes :
         IF try_unsafe_falls_through(rc)
         THEN /\ eng' = [eng EXCEPT ![cur] = "inflight"]
              /\ subCount' = [subCount EXCEPT ![cur] = @ + 1]
              /\ pc' = "submit_insert"
              /\ UNCHANGED <<ret, cur, owner, pending, freeCount>>
         ELSE /\ ret' = from_libusb(rc)
              /\ owner' = [owner EXCEPT ![cur] = "freed"]
              /\ freeCount' = [freeCount EXCEPT ![cur] = @ + 1]
              /\ pending' = PendingOnReject(pending, cur)
              /\ pc' = "idle" /\ cur' = NoT
              /\ UNCHANGED <<eng, subCount>>
    /\ UNCHANGED <<op, todo, completed, flag, lock, status, cbT, cbPc,
                   enqLog, retLog, cancelSnap, cancelRaced, cancelReq, woke, early>>

\* Mutant of Forget: the Transfer is dropped at the end of submit.
ForgetDrops(o, t) == [o EXCEPT ![t] = "freed"]

\* mem::forget(t): no destructor runs, the descriptor is the group's from now on.
Forget(o, t) == [o EXCEPT ![t] = "group"]

\* Lines 214-216: pending.insert, mem::forget(t), Ok(()).
SubmitInsert ==
    /\ UNCHANGED xferVars
    /\ pc = "submit_insert"
    /\ pending' = PendingInsert(pending, cur)
    /\ owner' = Forget(owner, cur)
    /\ ret' = "Ok" /\ pc' = "idle" /\ cur' = NoT
    /\ UNCHANGED <<op, todo, completed, flag, lock, status, user_data, eng, cbT, cbPc>>
    /\ UNCHANGED histVars

\* ----------------------------------------------- async_group_callback
\* The engine finishes a descriptor it holds: it writes the status and calls
\* the callback (one callback at a time: the engine serialises event handling).
EngineComplete(t) ==
    /\ UNCHANGED xferVars
    /\ cbT = NoT /\ eng[t] \in {"inflight", "cancelling"}
    /\ \E s \in (IF eng[t] = "cancelling"
                 THEN EngineStatuses \cup {LIBUSB_TRANSFER_CANCELLED}
                 ELSE EngineStatuses) :
         status' = [status EXCEPT ![t] = s]
    /\ eng' = [eng EXCEPT ![t] = "callback"]
    /\ cbT' = t /\ cbPc' = "lock"
    /\ UNCHANGED <<completed, flag, lock, owner, user_data>>
    /\ UNCHANGED mainVars
    /\ UNCHANGED histVars

\* callback_data.completed.lock()
CbLock ==
    /\ UNCHANGED xferVars
    /\ cbPc = "lock" /\ ~groupFreed /\ lock = "free"
    /\ lock' = "cb" /\ cbPc' = "push"
    /\ UNCHANGED <<completed, flag, owner, status, user_data, eng, cbT>>
    /\ UNCHANGED mainVars
    /\ UNCHANGED histVars

\* Mutant of QueuePush: push_front.
QueuePushFront(q, t) == <<t>> \o q

\* Mutant of QueuePush: the completion is not enqueued.
QueuePushDrops(q, t) == q

\* Mutant of QueuePush: the completion is enqueued twice.
QueuePushTwice(q, t) == Append(Append(q, t), t)

\* completed.push_back(transfer)
QueuePush(q, t) == Append(q, t)

\* Mutant of FlagSignal: the flag is left as it was.
FlagSignalKeeps(f) == f

\* *(callback_data.flag.get()) = 1
FlagSignal(f) == 1

\* Line 187, under the lock: push the descriptor.
CbPush ==
    /\ UNCHANGED xferVars
    /\ cbPc = "push" /\ ~groupFreed
    /\ completed' = QueuePush(completed, cbT)
    /\ enqLog' = Append(enqLog, cbT)
    /\ early' = IF pc = "submit_insert" /\ cur = cbT THEN early \cup {cbT} ELSE early
    /\ cbPc' = "flag"
    /\ UNCHANGED <<flag, lock, owner, status, user_data, eng, cbT>>
    /\ UNCHANGED mainVars
    /\ UNCHANGED <<subCount, retLog, cancelSnap, cancelRaced, cancelReq, woke,
                   freeCount>>

\* Lines 188-189, still under the lock: set the flag; the guard goes out of
\* scope and the callback returns to the engine.
CbFlag ==
    /\ UNCHANGED xferVars
    /\ cbPc = "flag" /\ ~groupFreed
    /\ flag' = FlagSignal(flag)
    /\ lock' = "free" /\ cbPc' = "none" /\ cbT' = NoT
    /\ eng' = [eng EXCEPT ![cbT] = "idle"]
    /\ UNCHANGED <<completed, owner, status, user_data>>
    /\ UNCHANGED mainVars
    /\ UNCHANGED histVars

\* The callback runs (or goes on running) after the Box<CallbackData> it reaches
\* through user_data has been freed: its reads and writes hit freed memory, so
\* what is left at the queue, flag and mutex is any of the values it could write.
CbDangling ==
    /\ UNCHANGED xferVars
    /\ cbT # NoT /\ groupFreed
    /\ completed' \in {completed, QueuePush(completed, cbT)}
    /\ flag' \in {0, 1}
    /\ UNCHANGED lock
    /\ cbPc' = "none" /\ cbT' = NoT
    /\ eng' = [eng EXCEPT ![cbT] = "idle"]
    /\ UNCHANGED <<owner, status, user_data>>
    /\ UNCHANGED mainVars
    /\ UNCHANGED histVars

\* ----------------------------------------------------------- wait_any
CallWaitAny ==
    /\ UNCHANGED xferVars
    /\ pc = "idle"
    /\ pc' = "wait_any" /\ op' = "wait_any" /\ ret' = "none"
    /\ cancelSnap' = {} /\ cancelRaced' = {}
    /\ cancelReq' = [x \in Transfers |-> 0]
    /\ UNCHANGED <<cur, todo, pending, completed, flag, lock, owner, status,
                   user_data, eng, cbT, cbPc, subCount, enqLog, retLog, woke, freeCount, early>>

\* Where cancel_all's result goes: to its caller, or to drop, which ignores it
\* (`self.cancel_all().ok()`) and lets the group's fields be freed.
CancelAllReturnPc == IF op = "drop" THEN "dropped" ELSE "idle"

\* Mutant of WaitAnyErrPc: the failed call is tried again.
WaitAnyErrPcRetries == "wait_lock"

\* wait_any returns Err(e): to the caller, or into cancel_all's try!, which
\* returns it in turn.
WaitAnyErrPc == IF op = "wait_any" THEN "idle" ELSE CancelAllReturnPc

\* Mutant of PendingIsEmpty: the early return is missing.
PendingIsEmptyNever(p) == FALSE

\* self.pending.len() == 0
PendingIsEmpty(p) == Cardinality(p) = 0

\* Lines 222-225.
WaitAnyCheck ==
    /\ UNCHANGED xferVars
    /\ pc = "wait_any"
    /\ IF PendingIsEmpty(pending)
       THEN /\ ret' = "NotFound" /\ pc' = WaitAnyErrPc
       ELSE /\ pc' = "wait_lock" /\ UNCHANGED ret
    /\ UNCHANGED <<op, cur, todo, pending, completed, flag, lock, owner, status,
                   user_data, eng, cbT, cbPc>>
    /\ UNCHANGED histVars

\* self.callback_data.completed.lock()
WaitLock ==
    /\ UNCHANGED xferVars
    /\ pc = "wait_lock" /\ lock = "free"
    /\ lock' = "main" /\ pc' = "wait_pop"
    /\ UNCHANGED <<op, ret, cur, todo, pending, completed, flag, owner, status,
                   user_data, eng, cbT, cbPc>>
    /\ UNCHANGED histVars

\* completed.pop_front(): the element taken and what is left.
QueueFront(q) == Head(q)
QueueRest(q) == Tail(q)

\* Lines 232-237, under the lock: pop the front and break, or clear the flag;
\* either way the guard is released at the end of the block.
WaitPop ==
    /\ UNCHANGED xferVars
    /\ pc = "wait_pop"
    /\ IF completed # <<>>
       THEN /\ cur' = QueueFront(completed)
            /\ completed' = QueueRest(completed)
            /\ pc' = "wait_remove"
            /\ UNCHANGED flag
       ELSE /\ flag' = 0
            /\ pc' = "wait_events"
            /\ UNCHANGED <<cur, completed>>
    /\ lock' = "free"
    /\ UNCHANGED <<op, ret, todo, pending, owner, status, user_data, eng, cbT, cbPc>>
    /\ UNCHANGED histVars

\* Mutant of LoopAgain: a successful event call leaves the loop.
LoopAgainBreaks == "wait_remove"

\* The back edge of `loop` (line 229): the block that locks and pops is next.
LoopAgain == "wait_lock"

\* Lines 238-241: libusb_handle_events_completed returns (it may block, and may
\* return for any event), try_unsafe!.
WaitEvents ==
    /\ UNCHANGED xferVars
    /\ pc = "wait_events"
    /\ \E rc \in EventCodes :
         IF try_unsafe_falls_through(rc)
         THEN pc' = LoopAgain /\ woke' = (woke \/ completed = <<>>) /\ UNCHANGED ret
         ELSE pc' = WaitAnyErrPc /\ woke' = FALSE /\ ret' = from_libusb(rc)
    /\ UNCHANGED <<op, cur, todo, pending, completed, flag, lock, owner, status,
                   user_data, eng, cbT, cbPc>>
    /\ UNCHANGED <<subCount, enqLog, retLog, cancelSnap, cancelRaced, cancelReq,
                   freeCount, early>>

\* Mutant of PendingRemove: the descriptor is looked up but not removed.
PendingRemoveKeeps(p, t) == p

\* self.pending.remove(&transfer): what is left of the set.
PendingRemove(p, t) == p \ {t}

\* Lines 244-249: remove from pending (panic if absent), rebuild the Transfer.
\* Called by the user the Transfer is the caller's; called by cancel_all the
\* value is discarded at once (libusb_free_transfer).
WaitRemove ==
    /\ UNCHANGED xferVars
    /\ pc = "wait_remove"
    /\ IF cur \notin pending
       THEN /\ pc' = "panicked"
            /\ UNCHANGED <<ret, cur, pending, owner, retLog, woke, freeCount, early>>
       ELSE /\ pending' = PendingRemove(pending, cur)
            /\ retLog' = Append(retLog, cur)
            /\ cur' = NoT /\ woke' = FALSE /\ early' = early \ {cur}
            /\ IF op = "wait_any"
               THEN /\ owner' = [owner EXCEPT ![cur] = "caller"]
                    /\ ret' = "Ok" /\ pc' = "idle"
                    /\ UNCHANGED freeCount
               ELSE /\ owner' = [owner EXCEPT ![cur] = "freed"]
                    /\ freeCount' = [freeCount EXCEPT ![cur] = @ + 1]
                    /\ pc' = "cancel_loop" /\ UNCHANGED ret
    /\ UNCHANGED <<op, todo, completed, flag, lock, status, user_data, eng, cbT, cbPc,
                   subCount, enqLog, cancelSnap, cancelRaced, cancelReq>>

\* --------------------------------------------------------- cancel_all
\* Entering cancel_all: the iterator over self.pending is created.
EnterCancelAll(o) ==
    /\ UNCHANGED xferVars
    /\ pc = "idle"
    /\ pc' = "cancel_iter" /\ op' = o /\ ret' = "none"
    /\ todo' = pending
    /\ cancelSnap' = pending
    /\ cancelRaced' = {t \in pending : eng[t] \in {"callback", "idle"}}
    /\ cancelReq' = [x \in Transfers |-> 0]
    /\ UNCHANGED <<cur, pending, completed, flag, lock, owner, status, user_data,
                   eng, cbT, cbPc, subCount, enqLog, retLog, woke, freeCount, early>>

CallCancelAll == EnterCancelAll("cancel_all")

\* Drop for AsyncGroup: self.cancel_all().ok()
CallDrop == EnterCancelAll("drop")

\* self.pending.iter(): what is left to visit after the descriptor just yielded.
IterRest(it, t) == it \ {t}

\* Lines 258-260: the next libusb_cancel_transfer of the for loop, try_unsafe!.
\* A request the engine accepts for a descriptor in flight makes it unwind.
CancelIter ==
    /\ UNCHANGED xferVars
    /\ pc = "cancel_iter"
    /\ IF todo = {}
       THEN pc' = "cancel_loop" /\ UNCHANGED <<ret, todo, eng, cancelReq>>
       ELSE \E t \in todo : \E rc \in CancelCodes(eng[t]) :
              /\ cancelReq' = [cancelReq EXCEPT ![t] = @ + 1]
              /\ IF try_unsafe_falls_through(rc)
                 THEN /\ todo' = IterRest(todo, t)
                      /\ eng' = [eng EXCEPT ![t] =
                                   IF @ = "inflight" THEN "cancelling" ELSE @]
                      /\ UNCHANGED <<pc, ret>>
                 ELSE /\ pc' = CancelAllReturnPc /\ ret' = from_libusb(rc)
                      /\ UNCHANGED <<todo, eng>>
    /\ UNCHANGED <<op, cur, pending, completed, flag, lock, owner, status, user_data,
                   cbT, cbPc>>
    /\ UNCHANGED <<subCount, enqLog, retLog, cancelSnap, cancelRaced, woke, freeCount, early>>

\* Mutant of CancelLoopGuard: the drain stops one descriptor early.
CancelLoopGuardOffByOne(p) == Cardinality(p) > 1

\* while self.pending.len() > 0
CancelLoopGuard(p) == Cardinality(p) > 0

\* Lines 262-266: call wait_any again, or return Ok(()).
CancelLoop ==
    /\ UNCHANGED xferVars
    /\ pc = "cancel_loop"
    /\ IF CancelLoopGuard(pending)
       THEN pc' = "wait_any" /\ UNCHANGED ret
       ELSE pc' = CancelAllReturnPc /\ ret' = "Ok"
    /\ UNCHANGED <<op, cur, todo, pending, completed, flag, lock, owner, status,
                   user_data, eng, cbT, cbPc>>
    /\ UNCHANGED histVars

\* ------------------------------------------------- Drop for Transfer
\* The caller lets go of a Transfer it holds: libusb_free_transfer.
DropTransfer(t) ==
    /\ UNCHANGED xferVars
    /\ pc \in {"idle", "dropped"} /\ owner[t] = "caller"
    /\ owner' = [owner EXCEPT ![t] = "freed"]
    /\ freeCount' = [freeCount EXCEPT ![t] = @ + 1]
    /\ UNCHANGED <<completed, flag, lock, status, user_data, eng, cbT, cbPc>>
    /\ UNCHANGED mainVars
    /\ UNCHANGED <<subCount, enqLog, retLog, cancelSnap, cancelRaced, cancelReq, woke, early>>

Next ==
    \/ \E t \in Transfers : CallSubmit(t)
    \/ SubmitEngine
    \/ SubmitInsert
    \/ \E t \in Transfers : EngineComplete(t)
    \/ CbLock
    \/ CbPush
    \/ CbFlag
    \/ CbDangling
    \/ CallWaitAny
    \/ WaitAnyCheck
    \/ WaitLock
    \/ WaitPop
    \/ WaitEvents
    \/ WaitRemove
    \/ CallCancelAll
    \/ CallDrop
    \/ CancelIter
    \/ CancelLoop
    \/ \E t \in Transfers : DropTransfer(t)

Spec == Init /\ [][Next]_vars

\* ------------------------------------------------------------ progress
\* The group with an engine that answers: no cancel request and no event call
\* is refused, so no drop leaves a callback behind.
LiveCancelIter == CancelIter /\ ret' \notin ErrorNames
LiveWaitEvents == WaitEvents /\ ret' \notin ErrorNames

NextLive ==
    \/ \E t \in Transfers : CallSubmit(t)
    \/ SubmitEngine
    \/ SubmitInsert
    \/ \E t \in Transfers : EngineComplete(t)
    \/ CbLock
    \/ CbPush
    \/ CbFlag
    \/ CallWaitAny
    \/ WaitAnyCheck
    \/ WaitLock
    \/ WaitPop
    \/ LiveWaitEvents
    \/ WaitRemove
    \/ CallCancelAll
    \/ CallDrop
    \/ LiveCancelIter
    \/ CancelLoop
    \/ \E t \in Transfers : DropTransfer(t)

\* What the scheduling guarantees: the owner thread goes on inside an operation
\* it has begun (OwnerStep: its steps that wait for nothing); the engine completes what it holds and its callback runs to
\* the end; libusb_handle_events_completed returns once the flag it was given is
\* set (it may return earlier, but nothing promises that); a thread that
\* finds the Mutex free again and again gets it in the end (each holder
\* releases it after a few statements and wait_any then goes to wait for
\* events), hence the strong fairness of the two lock() steps.
OwnerStep ==
    \/ SubmitEngine \/ SubmitInsert
    \/ WaitAnyCheck \/ WaitPop \/ WaitRemove
    \/ LiveCancelIter \/ CancelLoop

Fairness ==
    /\ WF_vars(OwnerStep)
    /\ SF_vars(WaitLock)
    /\ WF_vars(LiveWaitEvents /\ flag = 1)
    /\ \A t \in Transfers : WF_vars(EngineComplete(t))
    /\ SF_vars(CbLock)
    /\ WF_vars(CbPush \/ CbFlag)

SpecLive == Init /\ [][NextLive]_vars /\ Fairness

\* =================================================== Transfer (lines 47-149)
\* Largest payload handed to a constructor.
MaxPayloadLen == 258

LIBUSB_TRANSFER_TYPE_CONTROL == 0
LIBUSB_TRANSFER_TYPE_BULK == 2
LIBUSB_TRANSFER_TYPE_INTERRUPT == 3

\* Width of the casts `as u8` and `as u16`.
U8 == 256
U16 == 65536

\* A payload of n bytes, byte i being seed + i (mod 256).
MkPayload(n, seed) == [i \in 1..n |-> (seed + i) % U8]

\* The inputs the constructors are called with.
PayloadLens == {0, 1, 18, U8 - 1, U8, MaxPayloadLen}
PayloadSeeds == {0, 170}
Payloads == {MkPayload(n, s) : n \in PayloadLens, s \in PayloadSeeds}
            \cup {[i \in 1..18 |-> 0]}
Endpoints == {0, 129}
RequestTypes == {128, 33}
Requests == {6, 255}
Values16 == {0, 256, 4660, U16 - 1}
Indexes16 == {0, 513}
\* Durations as <<seconds, nanoseconds>>.
Timeouts == {<<1, 0>>, <<0, 1500000>>}
\* Buffers handed to set_buffer.
SetBuffers == {<<>>, <<7>>, [i \in 1..18 |-> 0], MkPayload(12, 170)}
\* The byte the device answers with, and what a read of freed memory may find.
ResponseByte == 90
GarbageBytes == {0, 221}
\* Raw values the status field may hold: unset, the engine's seven, one unknown.
RawStatusCodes == {STATUS_UNSET} \cup TerminalStatuses \cup {LIBUSB_TRANSFER_OVERFLOW + 1}

\* timeout.as_secs() * 1000 + timeout.subsec_nanos() as u64 / 1_000_000
\* (the cast to c_uint changes nothing below 2^32 ms, which Timeouts stay under).
TimeoutMs(timeout) == timeout[1] * 1000 + timeout[2] \div 1000000

\* Transfer::new: the descriptor fields it sets and the buffer it keeps.
\* (*t).buffer is taken from the Vec (allocation "A0") before shrink_to_fit;
\* `moved` says that the Vec had spare capacity and shrink_to_fit relocated it
\* (to "A1"), which leaves (*t).buffer pointing at the freed "A0".
new(endpoint, transfer_type, buffer, timeout, moved) ==
    [built |-> TRUE,
     status |-> STATUS_UNSET,
     endpoint |-> endpoint % U8,
     transfer_type |-> transfer_type,
     timeout |-> TimeoutMs(timeout),
     buffer_ptr |-> "A0",
     length |-> Len(buffer),
     actual_length |-> 0,
     buffer |-> buffer,
     vec_ptr |-> IF moved THEN "A1" ELSE "A0"]

\* Transfer::bulk
bulk(endpoint, buffer, timeout, moved) ==
    new(endpoint, LIBUSB_TRANSFER_TYPE_BULK, buffer, timeout, moved)

\* Transfer::interrupt
interrupt(endpoint, buffer, timeout, moved) ==
    new(endpoint, LIBUSB_TRANSFER_TYPE_INTERRUPT, buffer, timeout, moved)

\* Mutant of SetupHeader: value, index and length written high byte first.
SetupHeaderBigEndian(request_type, request, value, index, len) ==
    LET length == len % U16 IN
    << request_type,
       request,
       (value \div U8) % U8,
       (value % U8) % U8,
       (index \div U8) % U8,
       (index % U8) % U8,
       (length \div U8) % U8,
       (length % U8) % U8 >>

\* The 8 bytes Transfer::control puts in front of the payload (lines 83-92);
\* `length` is buffer.len() as u16.
SetupHeader(request_type, request, value, index, len) ==
    LET length == len % U16 IN
    << request_type,
       request,
       (value % U8) % U8,
       (value \div U8) % U8,
       (index % U8) % U8,
       (index \div U8) % U8,
       (length % U8) % U8,
       (length \div U8) % U8 >>

\* Transfer::control: the header chained with the payload.
control(endpoint, buffer, request_type, request, value, index, timeout, moved) ==
    new(endpoint, LIBUSB_TRANSFER_TYPE_CONTROL,
        SetupHeader(request_type, request, value, index, Len(buffer)) \o buffer,
        timeout, moved)

\* Transfer::status
status_of(raw) ==
    CASE raw = LIBUSB_TRANSFER_COMPLETED -> "Success"
      [] raw = LIBUSB_TRANSFER_ERROR -> "Error"
      [] raw = LIBUSB_TRANSFER_TIMED_OUT -> "Timeout"
      [] raw = LIBUSB_TRANSFER_CANCELLED -> "Cancelled"
      [] raw = LIBUSB_TRANSFER_STALL -> "Stall"
      [] raw = LIBUSB_TRANSFER_NO_DEVICE -> "NoDevice"
      [] OTHER -> "Unknown"

\* The bytes a read of n bytes at (*transfer).buffer + off may yield: those of
\* the Vec when the pointer is the Vec's, anything when it points at freed memory.
ReadAt(t, off, n) ==
    IF t.buffer_ptr = t.vec_ptr
    THEN {SubSeq(t.buffer, off + 1, off + n)}
    ELSE {[i \in 1..n |-> g] : g \in GarbageBytes}

\* Mutant of ActualOffset: the setup header is not skipped.
ActualOffsetZero(transfer_type) == 0

\* Lines 142-145 of Transfer::actual: the offset of the data in the buffer.
ActualOffset(transfer_type) ==
    IF transfer_type = LIBUSB_TRANSFER_TYPE_CONTROL THEN 8 ELSE 0

\* Transfer::actual: the slices from_raw_parts_mut may denote, each as its base
\* pointer, its offset from it, its length and the bytes it covers.
actual(t) ==
    LET offset == ActualOffset(t.transfer_type) IN
    {[ptr |-> t.buffer_ptr, off |-> offset, len |-> t.actual_length, bytes |-> bs] :
        bs \in ReadAt(t, offset, t.actual_length)}

\* Transfer::buffer: the Vec the Transfer owns.
buffer(t) == t.buffer

\* Mutant of set_buffer: actual_length is left as it was.
set_buffer_keeps_actual(t, b) ==
    [t EXCEPT !.buffer_ptr = "B0", !.length = Len(b),
              !.buffer = b, !.vec_ptr = "B0"]

\* Transfer::set_buffer: the descriptor points at the new Vec (allocation "B0"),
\* which then replaces the old one.
set_buffer(t, b) ==
    [t EXCEPT !.buffer_ptr = "B0", !.length = Len(b), !.actual_length = 0,
              !.buffer = b, !.vec_ptr = "B0"]

BuildBulk ==
    /\ ~tr.built
    /\ \E e \in Endpoints, b \in Payloads, to \in Timeouts, moved \in BOOLEAN :
         /\ tr' = bulk(e, b, to, moved)
         /\ targs' = [ctor |-> "bulk", endpoint |-> e, buffer |-> b, timeout |-> to,
                      modified |-> FALSE]
    /\ UNCHANGED tout
    /\ UNCHANGED groupVars

BuildInterrupt ==
    /\ ~tr.built
    /\ \E e \in Endpoints, b \in Payloads, to \in Timeouts, moved \in BOOLEAN :
         /\ tr' = interrupt(e, b, to, moved)
         /\ targs' = [ctor |-> "interrupt", endpoint |-> e, buffer |-> b, timeout |-> to,
                      modified |-> FALSE]
    /\ UNCHANGED tout
    /\ UNCHANGED groupVars

BuildControl ==
    /\ ~tr.built
    /\ \E e \in {0}, b \in Payloads, to \in {<<1, 0>>}, moved \in BOOLEAN,
          rt \in RequestTypes, rq \in Requests, v \in Values16, ix \in Indexes16 :
         /\ tr' = control(e, b, rt, rq, v, ix, to, moved)
         /\ targs' = [ctor |-> "control", endpoint |-> e, buffer |-> b, timeout |-> to,
                      request_type |-> rt, request |-> rq, value |-> v, index |-> ix,
                      modified |-> FALSE]
    /\ UNCHANGED tout
    /\ UNCHANGED groupVars

\* How much the engine may report as transferred: nothing, one byte, or all
\* the room there is after the setup header.
ActualLengths(t) ==
    LET room == t.length - ActualOffset(t.transfer_type) IN
    {n \in {0, 1, room} : n <= room}

\* One trip through a group: submit hands the descriptor to the engine, which
\* writes the device's answer at (*transfer).buffer (after the setup header of a
\* control transfer), sets actual_length and status; wait_any (line 248) then
\* rebuilds the Vec from (*transfer).buffer and (*transfer).length.
EngineWrites ==
    /\ tr.built /\ tr.status = STATUS_UNSET
    /\ tr.length >= ActualOffset(tr.transfer_type)
    /\ \E raw \in RawStatusCodes \ {STATUS_UNSET}, n \in ActualLengths(tr),
          before \in ReadAt(tr, 0, tr.length) :
         LET off == ActualOffset(tr.transfer_type)
             after == [i \in 1..tr.length |->
                         IF i > off /\ i <= off + n THEN ResponseByte ELSE before[i]]
         IN tr' = [tr EXCEPT !.status = raw, !.actual_length = n,
                             !.buffer = after, !.vec_ptr = tr.buffer_ptr]
    /\ targs' = [targs EXCEPT !.modified = TRUE]
    /\ tout' = NoOut
    /\ UNCHANGED groupVars

\* The caller reads status().
CallStatus ==
    /\ tr.built
    /\ tout' = [call |-> "status", raw |-> tr.status, val |-> status_of(tr.status)]
    /\ UNCHANGED <<tr, targs>>
    /\ UNCHANGED groupVars

\* The caller reads actual().
CallActual ==
    /\ tr.built
    /\ \E slice \in actual(tr) : tout' = [call |-> "actual", val |-> slice]
    /\ UNCHANGED <<tr, targs>>
    /\ UNCHANGED groupVars

\* The caller replaces the buffer of a Transfer it holds.
CallSetBuffer ==
    /\ tr.built
    /\ \E b \in SetBuffers :
         /\ tr' = set_buffer(tr, b)
         /\ tout' = [call |-> "set_buffer", arg |-> b]
    /\ targs' = [targs EXCEPT !.modified = TRUE]
    /\ UNCHANGED groupVars

\* The caller reads buffer(); `after` is the call that came before it.
CallBuffer ==
    /\ tr.built
    /\ tout' = [call |-> "buffer", val |-> buffer(tr), after |-> tout.call]
    /\ UNCHANGED <<tr, targs>>
    /\ UNCHANGED groupVars

NextTransfer ==
    \/ BuildBulk
    \/ BuildInterrupt
    \/ BuildControl
    \/ EngineWrites
    \/ CallStatus
    \/ CallActual
    \/ CallSetBuffer
    \/ CallBuffer

SpecTransfer == Init /\ [][NextTransfer]_vars

\* ================================================================ claims
\* How often descriptor t occurs in a log.
Count(log, t) == Cardinality({i \in 1..Len(log) : log[i] = t})
IsPrefix(a, b) == Len(a) <= Len(b) /\ SubSeq(b, 1, Len(a)) = a
InQueue(t) == \E i \in 1..Len(completed) : completed[i] = t

\* C1: wait_any never returns a descriptor more often than it was submitted,
\* and whenever the owner thread is between API calls every accepted submission
\* of a descriptor has been returned exactly once, except the one submission
\* for which it is still pending: N submissions followed by N successful
\* wait_any calls return every submitted descriptor once, none twice, none
\* omitted, whatever the completion order and interleaving.
C1_EachReturnedExactlyOnce ==
    /\ \A t \in Transfers : Count(retLog, t) <= subCount[t]
    /\ pc = "idle" =>
         \A t \in Transfers :
           subCount[t] = Count(retLog, t) + (IF t \in pending THEN 1 ELSE 0)

\* C1 witness: every descriptor was submitted once, completed in the reverse
\* order, and as many caller wait_any calls have returned them all.
C1_Witness ==
    /\ pc = "idle" /\ op = "wait_any" /\ ret = "Ok" /\ pending = {}
    /\ \A t \in Transfers : subCount[t] = 1 /\ Count(retLog, t) = 1
    /\ Len(retLog) = NumTransfers
    /\ retLog[1] = NumTransfers

\* C2: a step of wait_any taken at its entry with the pending set empty is the
\* return of Err(NotFound): the owner thread goes straight back to its caller,
\* without passing through the lock, the flag clearing or the engine's event
\* primitive, and pending set, queue, flag and lock are as before.
C2_WaitAnyEmptyNotFound ==
    [][ (pc = "wait_any" /\ pending = {} /\ pc' # pc) =>
          /\ pc' = "idle" /\ ret' = "NotFound"
          /\ pending' = pending /\ completed' = completed
          /\ flag' = flag /\ lock' = lock ]_vars

\* C2 witness: a caller's wait_any has returned NotFound on an empty pending set
\* (the engine's event primitive yields Interrupted, never NotFound).
C2_Witness ==
    /\ pc = "idle" /\ op = "wait_any" /\ ret = "NotFound" /\ pending = {}
    /\ Len(retLog) > 0

\* C3: the descriptors wait_any has returned so far are, in order, the first
\* descriptors the callback enqueued (FIFO).
C3_FifoOrder == IsPrefix(retLog, enqLog)

\* C3 witness: wait_any has popped the oldest completion while a younger one of
\* another descriptor is queued behind it.
C3_Witness ==
    /\ pc = "wait_remove" /\ completed # <<>>
    /\ Len(enqLog) >= Len(retLog) + 2
    /\ cur = enqLog[Len(retLog) + 1]
    /\ Head(completed) = enqLog[Len(retLog) + 2]
    /\ Head(completed) # cur

C5_MixedCancelAllEndsEmpty ==
    (/\ op \in {"cancel_all", "drop"} /\ pc \in {"idle", "dropped"}
     /\ cancelRaced # {} /\ cancelSnap \ cancelRaced # {}) =>
        pending = {}

\* C6: once drop has finished (the CallbackData is freed), the engine holds no
\* descriptor whose user_data points at it.
C6_NoEngineHeldAfterDrop ==
    groupFreed =>
        \A t \in Transfers : ~(EngineHolds(t) /\ user_data[t] = "callback_data")

C8_EverySubmissionRetrieved ==
    groupFreed =>
        \A t \in Transfers :
          /\ subCount[t] = Count(retLog, t)
          /\ Count(enqLog, t) = Count(retLog, t)

\* ------------------------------------------------ claims about Transfer
\* The member of TransferStatus named for each raw completion code.
StatusNamed(raw) ==
    CASE raw = LIBUSB_TRANSFER_COMPLETED -> "Success"
      [] raw = LIBUSB_TRANSFER_ERROR -> "Error"
      [] raw = LIBUSB_TRANSFER_TIMED_OUT -> "Timeout"
      [] raw = LIBUSB_TRANSFER_CANCELLED -> "Cancelled"
      [] raw = LIBUSB_TRANSFER_STALL -> "Stall"
      [] raw = LIBUSB_TRANSFER_NO_DEVICE -> "NoDevice"
      [] raw = LIBUSB_TRANSFER_OVERFLOW -> "Overflow"
      [] OTHER -> "Unknown"

\* C9: status() returns the member of TransferStatus named for the raw code,
\* and Unknown for -1 and for any code that is none of the seven.
C9_StatusMapsEveryCode ==
    tout.call = "status" => tout.val = StatusNamed(tout.raw)

\* C10: the buffer of a transfer built by control() (before the engine or
\* set_buffer has written to it) is the 8 header bytes
\* request_type, request, then low byte and high byte of value, of index and of
\* the payload length L (so value and index are read back little-endian),
\* followed by the payload; the descriptor's length is L + 8.
C10_ControlWireFormat ==
    (targs.ctor = "control" /\ ~targs.modified) =>
        LET b == tr.buffer
            L == Len(targs.buffer)
        IN /\ Len(b) = L + 8 /\ tr.length = L + 8
           /\ \A i \in 1..8 : b[i] \in 0..255
           /\ b[1] = targs.request_type /\ b[2] = targs.request
           /\ b[3] = targs.value % 256 /\ b[4] = (targs.value \div 256) % 256
           /\ b[5] = targs.index % 256 /\ b[6] = (targs.index \div 256) % 256
           /\ b[7] = L % 256 /\ b[8] = (L \div 256) % 256
           /\ b[3] + 256 * b[4] = targs.value
           /\ b[5] + 256 * b[6] = targs.index
           /\ \A i \in 1..L : b[8 + i] = targs.buffer[i]

\* C10 witness: the GET_DESCRIPTOR request of the scenario (0x80, 0x06, 0x0100,
\* 0, 18 zero bytes) and its header.
C10_Witness ==
    /\ targs.ctor = "control" /\ ~targs.modified
    /\ targs.request_type = 128 /\ targs.request = 6
    /\ targs.value = 256 /\ targs.index = 0
    /\ targs.buffer = [i \in 1..18 |-> 0]
    /\ SubSeq(tr.buffer, 1, 8) = <<128, 6, 0, 1, 0, 0, 18, 0>>
    /\ tr.length = 26


\* C11: actual() returns the part of the transfer's buffer that starts at
\* offset 8 for a control transfer and at offset 0 for a bulk or interrupt one,
\* as long as the descriptor's actual_length; a slice that is not empty lies
\* inside the Vec the Transfer owns, and for a control transfer it covers none
\* of the first 8 bytes.
C11_ActualIsDataPart ==
    tout.call = "actual" =>
        LET v == tout.val
            off == IF tr.transfer_type = LIBUSB_TRANSFER_TYPE_CONTROL THEN 8 ELSE 0
        IN /\ v.off = off
           /\ v.len = tr.actual_length
           /\ v.bytes = SubSeq(tr.buffer, off + 1, off + v.len)
           /\ v.len > 0 => /\ v.ptr = tr.vec_ptr
                           /\ off + v.len <= Len(tr.buffer)
           /\ tr.transfer_type = LIBUSB_TRANSFER_TYPE_CONTROL =>
                \A i \in (v.off + 1)..(v.off + v.len) : i > 8

\* C11 witness: actual() of a control transfer that came back with more than
\* one byte of data, its setup header still in front of them.
C11_Witness ==
    /\ tout.call = "actual"
    /\ tr.transfer_type = LIBUSB_TRANSFER_TYPE_CONTROL
    /\ tout.val.len > 1
    /\ tout.val.bytes = [i \in 1..tout.val.len |-> ResponseByte]
    /\ tr.buffer[1] = targs.request_type

\* C12: set_buffer(B) makes the descriptor's length len(B) and its
\* actual_length 0 and leaves endpoint, kind, timeout and status as they were,
\* and a buffer() that follows it returns exactly B.
C12_SetBufferThenBuffer ==
    [][/\ (tout'.call = "set_buffer" /\ <<tr, tout>>' # <<tr, tout>>) =>
            /\ tr'.length = Len(tout'.arg)
            /\ tr'.actual_length = 0
            /\ tr'.buffer_ptr = tr'.vec_ptr
            /\ tr'.endpoint = tr.endpoint
            /\ tr'.transfer_type = tr.transfer_type
            /\ tr'.timeout = tr.timeout
            /\ tr'.status = tr.status
       /\ (tout.call = "set_buffer" /\ tout'.call = "buffer") =>
            /\ tout'.val = tout.arg
            /\ Len(tout'.val) = Len(tout.arg)
            /\ tr'.length = Len(tout.arg)
            /\ tr'.actual_length = 0
      ]_vars

\* C12 witness: buffer() right after set_buffer, on a control transfer that had
\* come back from the engine with another buffer length.
C12_Witness ==
    /\ tout.call = "buffer" /\ tout.after = "set_buffer"
    /\ tout.val = MkPayload(12, 170)
    /\ tr.transfer_type = LIBUSB_TRANSFER_TYPE_CONTROL
    /\ tr.status = LIBUSB_TRANSFER_COMPLETED
    /\ Len(targs.buffer) + 8 # tr.length


\* C13 (as stated): while the group lives, a completion queue that is not
\* empty has the flag set whenever the queue lock is free, and also whenever
\* wait_any stands at the call of the event primitive.
C13_NoLostWakeup ==
    ~groupFreed =>
        /\ (lock = "free" /\ completed # <<>>) => flag = 1
        /\ (pc = "wait_events" /\ completed # <<>>) => flag = 1

\* C13 (amended): while the group lives, a completion queue that is not empty
\* has the flag set whenever the queue lock is free; wait_any stands at the
\* call of the event primitive with a queued completion and a clear flag only
\* while the callback still holds the lock between its push and its store.
C13_NoLostWakeupLockFree ==
    ~groupFreed =>
        /\ (lock = "free" /\ completed # <<>>) => flag = 1
        /\ (pc = "wait_events" /\ completed # <<>> /\ flag # 1) =>
               (lock = "cb" /\ cbPc = "flag")

\* C13 witness: wait_any has cleared the flag and stands at the event
\* primitive when a callback has queued a completion and set the flag again.
C13_Witness ==
    /\ ~groupFreed /\ pc = "wait_events" /\ lock = "free"
    /\ completed # <<>> /\ flag = 1
    /\ retLog # <<>>


\* The positions inside wait_any.
WaitAnyPcs == {"wait_any", "wait_lock", "wait_pop", "wait_events", "wait_remove"}

\* C14: a step in which wait_any returns Ok (to the user, or to cancel_all's
\* loop) is the one that follows a pop, and hands out the descriptor popped,
\* which the callback had enqueued; a successful return of the event primitive
\* returns nothing and leads back to the block that locks and pops, and that
\* block, finding the queue empty, clears the flag and calls the primitive again.
C14_OkOnlyAfterPop ==
    [][/\ ((pc \in WaitAnyPcs /\ pc' \in {"idle", "cancel_loop"}
            /\ ret' \notin ErrorNames) =>
              /\ pc = "wait_remove" /\ cur \in Transfers
              /\ retLog' = Append(retLog, cur)
              /\ IsPrefix(retLog', enqLog)
              /\ op = "wait_any" => (ret' = "Ok" /\ owner'[cur] = "caller"))
       /\ ((pc = "wait_events" /\ pc' # pc /\ ret' \notin ErrorNames) =>
              /\ pc' = "wait_lock" /\ ret' = "none"
              /\ UNCHANGED <<pending, completed, cur, retLog, owner>>)
       /\ ((pc = "wait_pop" /\ pc' # pc /\ completed = <<>>) =>
              /\ pc' = "wait_events" /\ flag' = 0 /\ ret' = "none"
              /\ UNCHANGED <<pending, completed, cur, retLog, owner>>)
      ]_vars

\* C14 witness: a wait_any of the user that was woken with the queue empty,
\* went round the loop and has now popped the descriptor it is about to return.
C14_Witness ==
    /\ op = "wait_any" /\ pc = "wait_remove" /\ woke
    /\ cur \in pending


\* The errors a refused engine call can be mapped to.
EngineErrors ==
    {from_libusb(rc) : rc \in (SubmitCodes \cup EventCodes \cup {LIBUSB_ERROR_NO_DEVICE,
                               LIBUSB_ERROR_NOT_FOUND}) \ {LIBUSB_SUCCESS}}

\* C15: a step in which libusb_submit_transfer, libusb_cancel_transfer or
\* libusb_handle_events_completed returns a non-zero code ends the operation
\* with the mapped error (drop being where cancel_all's error ends up), and
\* changes neither what the engine holds nor the pending set nor the queue;
\* inside a wait_any of the user the pending set changes only in the step that
\* returns Ok and the queue shrinks only in the pop that leads to it, so a
\* wait_any that fails has left both as they were.
C15_FailurePropagatesAtOnce ==
    [][/\ ((pc \in {"submit", "cancel_iter", "wait_events"} /\ ret' \in ErrorNames) =>
              /\ ret' \in EngineErrors
              /\ pc' = (IF op = "drop" THEN "dropped" ELSE "idle")
              /\ UNCHANGED <<eng, subCount, pending, completed, retLog>>)
       /\ ((op = "wait_any" /\ pc \in WaitAnyPcs /\ pending' # pending) =>
              (pc = "wait_remove" /\ ret' = "Ok"))
       /\ ((op = "wait_any" /\ pc \in WaitAnyPcs /\ Len(completed') < Len(completed)) =>
              (pc = "wait_pop" /\ pc' = "wait_remove"))
       /\ ((op = "wait_any" /\ pc = "wait_remove") => ret' \notin ErrorNames)
      ]_vars

\* C15 witness: a wait_any of the user has returned the error of the event
\* primitive while a completion that arrived meanwhile sits in the queue and
\* its descriptor in the pending set.
C15_Witness ==
    /\ op = "wait_any" /\ pc = "idle" /\ ret = from_libusb(LIBUSB_ERROR_INTERRUPTED)
    /\ completed # <<>> /\ \A i \in 1..Len(completed) : completed[i] \in pending
    /\ Cardinality(pending) = NumTransfers


\* C16: cancel_all (called by the user or by drop) sends exactly one cancel
\* request for each descriptor that was pending when it was called: never more
\* than one, all of them before its first wait_any, and none is missing when it
\* has returned; while it sends them the pending set is as it was at the call;
\* and it returns Ok only with the pending set empty.
C16_CancelAllRequestsEachOnce ==
    op \in {"cancel_all", "drop"} =>
        /\ \A t \in Transfers : cancelReq[t] <= (IF t \in cancelSnap THEN 1 ELSE 0)
        /\ pc = "cancel_iter" => pending = cancelSnap
        /\ pc \in WaitAnyPcs \cup {"cancel_loop"} =>
               \A t \in cancelSnap : cancelReq[t] = 1
        /\ pc \in {"idle", "dropped"} =>
               /\ \A t \in cancelSnap : cancelReq[t] = 1
               /\ ret = "Ok" => pending = {}


\* C17: with one callback per accepted submission and one owner thread,
\* wait_any never reaches its panic: the descriptor it has popped is in the
\* pending set when it looks it up, also when the callback had enqueued it
\* before submit recorded it.
C17_PoppedIsPending ==
    /\ pc # "panicked"
    /\ pc = "wait_remove" => cur \in pending
    /\ \A t \in early : t \in pending \/ (pc = "submit_insert" /\ cur = t)

\* C17 witness: wait_any has popped a descriptor whose callback had fired
\* between libusb_submit_transfer returning and pending.insert.
C17_Witness ==
    /\ pc = "wait_remove" /\ cur \in early /\ cur \in pending
    /\ op = "wait_any"


\* C19: a descriptor handed to submit is not in the pending set already, so
\* pending.insert never meets a duplicate; a descriptor in the pending set is
\* not a Transfer in the caller's hands; a descriptor that has been freed is
\* neither in the pending set nor held by the engine, and was freed once.
C19_ExclusiveOwnership ==
    /\ pc \in {"submit", "submit_insert"} => cur \notin pending
    /\ \A t \in Transfers :
         /\ t \in pending => owner[t] = "group"
         /\ (owner[t] = "freed" \/ freeCount[t] > 0) =>
                (t \notin pending /\ ~EngineHolds(t))
         /\ freeCount[t] <= 1
         /\ owner[t] = "freed" <=> freeCount[t] = 1

\* C19 witness: one descriptor made a trip through the group and was then
\* freed by its caller, while another is in the pending set and with the engine.
C19_Witness ==
    \E t, u \in Transfers :
        /\ freeCount[t] = 1 /\ Count(retLog, t) = 1
        /\ u \in pending /\ EngineHolds(u) /\ owner[u] = "group"
        /\ pc = "idle" /\ op = "wait_any"


\* C18: with an engine that completes every descriptor it holds and refuses no
\* event call and no cancel request, a wait_any that found the pending set not
\* empty eventually returns Ok with a Transfer, and a cancel_all (of the user or
\* of drop) eventually returns Ok with the pending set empty.
C18_WaitAnyAndCancelAllReturn ==
    /\ (op = "wait_any" /\ pc \in WaitAnyPcs /\ pending # {})
          ~> (op = "wait_any" /\ pc = "idle" /\ ret = "Ok")
    /\ (op \in {"cancel_all", "drop"} /\ pc = "cancel_iter")
          ~> (pc \in {"idle", "dropped"} /\ ret = "Ok" /\ pending = {})

\* C18 witness: a drop whose cancel_all had descriptors to cancel has drained
\* all of them and returned.
C18_Witness ==
    /\ op = "drop" /\ pc = "dropped" /\ ret = "Ok"
    /\ Cardinality(cancelSnap) = NumTransfers /\ pending = {}
    /\ \A t \in cancelSnap : freeCount[t] = 1

====
